---- MODULE Spec2Model ----
(***************************************************************************)
(* The build-metrics aggregator of sds-integration-dashboard: the shared   *)
(* ticker that paces calls to the BuildKite API, the per-pipeline parallel *)
(* page fetch, the multi-pipeline fetch, the TTL cache in front of it and  *)
(* the five HTTP handlers that use them.  Spec is the fetch and the cache; *)
(* CancelSpec is Spec with requests whose context is canceled; WorkerSpec  *)
(* is one parallel fetch under the scheduling its page workers rely on;    *)
(* AggSpec is the aggregation of one record set into the weekly and daily  *)
(* series the handlers answer with.                                        *)
(*                                                                         *)
(* Time is counted in minutes.  A build record is the pair                 *)
(* <<pipeline index, position in the upstream listing>>; the upstream      *)
(* listing of a pipeline is paginated the way the BuildKite API paginates: *)
(* page p holds the positions (p-1)*per_page+1 .. p*per_page that exist.   *)
(***************************************************************************)
EXTENDS Integers, Sequences, FiniteSets, TLC

----------------------------------------------------------------------------
(* Bounds of the model.  buildkiteMaxPages and buildkitePerPage are 10 and *)
(* 100 in src/buildkite.go:19-20; the model keeps their names and their    *)
(* roles and scales them down so that every completion order of the page   *)
(* workers is enumerated.  A pipeline lists at most MaxBuilds builds       *)
(* upstream; at most one pipeline lists more than MaxSmallBuilds, and none *)
(* does when more than one request arrives.  The clock stops at MaxNow.    *)
NumRequests == 2
buildkiteMaxPages == 4
buildkitePerPage == 2
MaxBuilds == 5
MaxSmallBuilds == 1
MaxNow == 6

(* Program constant: the cache TTL, 5 minutes. *)
buildkiteCacheTTL == 5

(* kpiBuildkiteCombinedAll asks for the builds created in the three months *)
(* before the request, here 90 days in minutes.                            *)
FetchWindow == 129600

Requests == 1 .. NumRequests

pipelines ==
  << "core-stack-deployment-pipeline", "core-stack-deployment-pipeline-legacy" >>

NumPipelines == Len(pipelines)

(* The pipeline the sequential fetchBuilds reads. *)
LegacyPipeline ==
  CHOOSE i \in 1 .. NumPipelines : pipelines[i] = "core-stack-deployment-pipeline-legacy"

CachedHandlers == { "kpiBuildkiteCombinedAll" }
ParallelHandlers == { "kpiBuildkiteCombined", "kpiBuildkiteCombinedDaily" }
SequentialHandlers ==
  { "kpiBuildkiteDeploymentTime", "kpiBuildkiteDeploymentFailureRate" }
Handlers == CachedHandlers \cup ParallelHandlers \cup SequentialHandlers

(* What one HTTP round trip can end in: success, or one of the three       *)
(* failures the code tells apart (client.Do fails, the status is not 200,  *)
(* the body does not decode).  The code branches only on err != nil, so    *)
(* the error value itself is kept as the one opaque non-nil "error".       *)
ErrKinds == { "transport", "status", "decode" }
Outcomes == { "nil" } \cup ErrKinds

WorkerPages == 2 .. buildkiteMaxPages

StatusOK == 200
StatusBadGateway == 502
StatusServiceUnavailable == 503

(* The environment variables buildkiteConfig reads, and the values tried   *)
(* for each: unset or empty, blanks only, a value.                         *)
EnvNames == { "BUILDKITE_TOKEN", "BUILDKITE_ORG" }
EnvValues == { "", " ", "value" }

VARIABLES
  now,            \* wall clock, minutes
  upstream,       \* upstream[i]: number of builds pipeline i lists upstream
  arrivals,       \* number of requests that arrive
  env,            \* env[name]: value of the environment variable name
  canceled,       \* canceled[r]: request r's context is canceled
  createdFrom,    \* createdFrom[r]: the created_from bound getCachedBuilds is called with
  refreshes,      \* the requests in the order their refresh began, and the one whose refresh is the entry
  cachedMeta,     \* cachedMeta[r]: the "cached" field of the answer, "none" while there is none
  aggBuilds,      \* the record set the aggregating handlers are given
  aggNow,         \* time.Now() of the aggregating handlers, minutes
  aggResp,        \* the series the last aggregating request was answered with
  aggPrev,        \* the series the request before it was answered with
  buildkiteCache, \* <<>> (nil pointer) or <<[Builds, FetchedAt]>>
  readers,        \* requests holding buildkiteCacheMutex.RLock
  writer,         \* requests holding buildkiteCacheMutex.Lock (at most one)
  tickC,          \* ticks buffered in buildkiteRateLimiter.C (capacity 1)
  handler,        \* handler[r]: the handler serving request r, "" before it starts
  pc,             \* pc[r]: where request r's handler goroutine stands
  ip,             \* ip[r]: index of the pipeline fetchBuildsParallel is at
  page,           \* page[r]: fetchBuilds' loop variable
  allBuilds,      \* allBuilds[r]: accumulator of fetchBuildsParallel / fetchBuilds
  builds,         \* builds[r]: getCachedBuilds' local, from the cache or the fetch
  pageMap,        \* pageMap[r]: fetchBuildsFromPipeline's map page -> builds
  workers,        \* workers[r][i][p]: page worker goroutine of pipeline fetch i
  results,        \* results[r][i]: the buffered results channel
  closed,         \* closed[r][i]: results channel closed
  received,       \* received[r]: page numbers the collector took from the channel, in order
  pipeOut,        \* pipeOut[r]: what each fetchBuildsFromPipeline call returned
  ret,            \* ret[r]: what the handler's fetch call returned
  response,       \* response[r]: the HTTP answer, status 0 while there is none
  requested,      \* requested[r][<<i, p>>]: upstream GETs sent for page p of pipeline i
  acquired,       \* acquired[r]: ticks request r's goroutines received
  outcome,        \* outcome[r][<<i, p>>]: how the GET of that page ended, "none" before
  ticksEmitted    \* ticks the ticker delivered into its channel

aggVars == << aggBuilds, aggNow, aggResp, aggPrev >>
fetchSide ==
  << now, upstream, arrivals, env, canceled, createdFrom, cachedMeta, refreshes, buildkiteCache, readers, writer, tickC, handler,
     pc, ip, page, allBuilds, builds, pageMap, workers, results, closed,
     received, pipeOut, ret, response, requested, acquired, outcome, ticksEmitted >>
shared == << now, upstream, arrivals, env, canceled, createdFrom, cachedMeta, aggVars, refreshes, buildkiteCache, readers, writer, tickC, ticksEmitted >>
fetchVars == << pageMap, workers, results, closed, received >>
vars ==
  << now, upstream, arrivals, env, canceled, createdFrom, cachedMeta, aggVars, refreshes, buildkiteCache, readers, writer, tickC, handler,
     pc, ip, page, allBuilds, builds, pageMap, workers, results, closed,
     received, pipeOut, ret, response, requested, acquired, outcome, ticksEmitted >>

----------------------------------------------------------------------------
(* The upstream API. *)

Min(a, b) == IF a < b THEN a ELSE b
Max(a, b) == IF a > b THEN a ELSE b

(* Number of records on page p of a listing of n builds. *)
PageLen(n, p) == Max(0, Min(buildkitePerPage, n - (p - 1) * buildkitePerPage))

(* The records page p of pipeline i holds upstream. *)
PageContent(i, p) ==
  [ k \in 1 .. PageLen(upstream[i], p) |-> << i, (p - 1) * buildkitePerPage + k >> ]

(* One GET of page p of pipeline i ending in outcome o: the decoded builds *)
(* or the error.                                                           *)
HTTPGet(i, p, o) ==
  IF o = "nil"
    THEN [ builds |-> PageContent(i, p), err |-> "nil" ]
    ELSE [ builds |-> << >>, err |-> "error" ]

NoPages == [ q \in {} |-> << >> ]
NoCounts == [ k \in (1 .. NumPipelines) \X (1 .. buildkiteMaxPages) |-> 0 ]
NoOutcomes == [ k \in (1 .. NumPipelines) \X (1 .. buildkiteMaxPages) |-> "none" ]
NoResponse == [ status |-> 0, builds |-> << >> ]
NoReturn == [ builds |-> << >>, err |-> "none" ]

RECURSIVE SumOver(_, _)
SumOver(f, S) ==
  IF S = {} THEN 0
  ELSE LET x == CHOOSE y \in S : TRUE IN f[x] + SumOver(f, S \ {x})

(* Upstream GETs sent so far on behalf of request r. *)
TotalRequested(r) == SumOver(requested[r], DOMAIN requested[r])

Bump(f, i, p) == [ f EXCEPT ![<< i, p >>] = @ + 1 ]

----------------------------------------------------------------------------
(* Variants of the definitions below, each changed the way a slip in the   *)
(* code would change it; the properties at the end are checked against     *)
(* them as well.                                                           *)
TakeTickPeek(c) == c

CacheFreshInclusive(cache, t) ==
  /\ cache # << >>
  /\ t - cache[1].FetchedAt <= buildkiteCacheTTL

NewCacheEntryMerged(cache, fetched, t) ==
  << [ Builds |-> (IF cache = << >> THEN << >> ELSE cache[1].Builds) \o fetched,
       FetchedAt |-> t ] >>

AppendPipelineReset(acc, out) ==
  IF out.err # "nil" THEN << >> ELSE acc \o out.builds

TrimSpaceNone(v) == v

StorePageByArrival(pm, res) == ((Cardinality(DOMAIN pm) + 1) :> res.builds) @@ pm

CachedBuildsOfWindow(cache, from) ==
  IF from = cache[1].FetchedAt - FetchWindow THEN cache[1].Builds ELSE << >>

OnlyOnePageInclusive(firstPageBuilds) == Len(firstPageBuilds) <= buildkitePerPage

ResultsCapacityShort == buildkiteMaxPages - 2

(* Lines 134 and 194: a receive from buildkiteRateLimiter.C takes the      *)
(* buffered tick out of the channel.                                       *)
TakeTick(c) == c - 1

(* getCachedBuilds, line 102: is the entry there and younger than the TTL. *)
CacheFresh(cache, t) ==
  /\ cache # << >>
  /\ t - cache[1].FetchedAt < buildkiteCacheTTL

(* getCachedBuilds, line 103: the builds a hit takes from the entry; the   *)
(* createdFrom bound of the call plays no part.                            *)
CachedBuilds(cache, from) == cache[1].Builds

(* getCachedBuilds, lines 118-121: the entry that replaces the old one. *)
NewCacheEntry(cache, fetched, t) == << [ Builds |-> fetched, FetchedAt |-> t ] >>

(* fetchBuildsParallel, lines 270-276: a failed pipeline is logged and     *)
(* skipped, a fetched one is appended.                                     *)
AppendPipeline(acc, out) ==
  IF out.err # "nil" THEN acc ELSE acc \o out.builds

(* fetchBuildsParallel, lines 278-279: what it returns once the loop ends. *)
ParallelResult(acc, outs) == [ builds |-> acc, err |-> "nil" ]

(* fetchBuildsFromPipeline, lines 158-162: page 1 is the only page. *)
OnlyOnePage(firstPageBuilds) == Len(firstPageBuilds) < buildkitePerPage

(* fetchBuildsFromPipeline, line 177: the results channel is made with     *)
(* room for totalPages - 1 results.                                        *)
ResultsCapacity == buildkiteMaxPages - 1

(* fetchBuildsFromPipeline, lines 238-247: what the collector does with    *)
(* one received result: "continue" after an error, "break" on an empty     *)
(* page, otherwise the page is stored under its page number.               *)
CollectVerdict(res) ==
  IF res.err # "nil" THEN "continue"
  ELSE IF Len(res.builds) = 0 THEN "break"
  ELSE "store"

(* Line 246: the page is stored under its page number. *)
StorePage(pm, res) == (res.page :> res.builds) @@ pm

(* fetchBuildsFromPipeline, lines 250-255: the collected pages in page     *)
(* order.                                                                  *)
RECURSIVE CombineFrom(_, _)
CombineFrom(pm, p) ==
  IF p > buildkiteMaxPages THEN << >>
  ELSE (IF p \in DOMAIN pm THEN pm[p] ELSE << >>) \o CombineFrom(pm, p + 1)

Combine(pm) == CombineFrom(pm, 1)

(* fetchBuilds, lines 68-112, run against pipeline i with every GET         *)
(* succeeding: pages are appended in order up to the first empty page, the *)
(* first short page or page buildkiteMaxPages.                             *)
RECURSIVE SequentialFrom(_, _, _)
SequentialFrom(i, p, acc) ==
  IF p > buildkiteMaxPages THEN acc
  ELSE LET b == PageContent(i, p)
       IN IF Len(b) = 0 THEN acc
          ELSE IF Len(b) < buildkitePerPage THEN acc \o b
          ELSE SequentialFrom(i, p + 1, acc \o b)

SequentialFetch(i) == SequentialFrom(i, 1, << >>)

(* strings.TrimSpace on the values tried. *)
TrimSpace(v) == IF v = " " THEN "" ELSE v

(* buildkiteConfig, src/buildkite.go lines 22-29. *)
buildkiteConfig(e) ==
  LET token == TrimSpace(e["BUILDKITE_TOKEN"])
      org == TrimSpace(e["BUILDKITE_ORG"])
  IN IF token = "" \/ org = ""
       THEN [ token |-> "", org |-> "", ok |-> FALSE ]
       ELSE [ token |-> token, org |-> org, ok |-> TRUE ]

(* buildkiteConfigMissing, src/buildkite.go lines 31-40. *)
buildkiteConfigMissing(e) ==
  (IF TrimSpace(e["BUILDKITE_TOKEN"]) = "" THEN << "BUILDKITE_TOKEN" >> ELSE << >>)
    \o (IF TrimSpace(e["BUILDKITE_ORG"]) = "" THEN << "BUILDKITE_ORG" >> ELSE << >>)

(* kpiBuildkiteCombinedAll, line 507: "cached" is whether the call of      *)
(* getCachedBuilds lasted less than 0.1 second.                            *)
CachedField(quick) == IF quick THEN "true" ELSE "false"

(* The handlers' answer to the fetch call's return value: 502 with the     *)
(* cause on an error, otherwise the series computed from the builds.       *)
Respond(res) ==
  IF res.err # "nil"
    THEN [ status |-> StatusBadGateway, builds |-> << >> ]
    ELSE [ status |-> StatusOK, builds |-> res.builds ]

----------------------------------------------------------------------------
(* No aggregating request has been made. *)
NoSeries == [ handler |-> "" ]

AggIdle ==
  /\ aggBuilds = << >>
  /\ aggNow = 0
  /\ aggResp = NoSeries
  /\ aggPrev = NoSeries

----------------------------------------------------------------------------
FetchInit ==
  /\ now = 0
  /\ upstream \in [ 1 .. NumPipelines -> 0 .. MaxBuilds ]
  /\ arrivals \in 1 .. NumRequests
  /\ env \in [ EnvNames -> EnvValues ]
  /\ canceled = [ r \in Requests |-> FALSE ]
  /\ createdFrom = [ r \in Requests |-> 0 ]
  /\ cachedMeta = [ r \in Requests |-> "none" ]
  /\ refreshes = [ began |-> << >>, entryOf |-> 0 ]
  /\ Cardinality({ i \in 1 .. NumPipelines : upstream[i] > MaxSmallBuilds })
       <= (IF arrivals = 1 THEN 1 ELSE 0)
  /\ buildkiteCache = << >>
  /\ readers = {}
  /\ writer = {}
  /\ tickC = 0
  /\ ticksEmitted = 0
  /\ handler = [ r \in Requests |-> "" ]
  /\ pc = [ r \in Requests |-> "idle" ]
  /\ ip = [ r \in Requests |-> 0 ]
  /\ page = [ r \in Requests |-> 0 ]
  /\ allBuilds = [ r \in Requests |-> << >> ]
  /\ builds = [ r \in Requests |-> << >> ]
  /\ pageMap = [ r \in Requests |-> NoPages ]
  /\ workers = [ r \in Requests |-> [ i \in 1 .. NumPipelines |-> [ p \in WorkerPages |-> "none" ] ] ]
  /\ results = [ r \in Requests |-> [ i \in 1 .. NumPipelines |-> << >> ] ]
  /\ closed = [ r \in Requests |-> [ i \in 1 .. NumPipelines |-> FALSE ] ]
  /\ received = [ r \in Requests |-> << >> ]
  /\ pipeOut = [ r \in Requests |-> << >> ]
  /\ ret = [ r \in Requests |-> NoReturn ]
  /\ response = [ r \in Requests |-> NoResponse ]
  /\ requested = [ r \in Requests |-> NoCounts ]
  /\ acquired = [ r \in Requests |-> 0 ]
  /\ outcome = [ r \in Requests |-> NoOutcomes ]

Init == FetchInit /\ AggIdle

----------------------------------------------------------------------------
(* The environment: the clock and the ticker.  The clock is read only to   *)
(* compare an entry's age with the TTL, so it is let run only while there  *)
(* is an entry younger than the TTL: minutes that pass with no entry, or   *)
(* past its expiry, change no decision the program takes.                  *)

AdvanceTime ==
  /\ now < MaxNow
  /\ CacheFresh(buildkiteCache, now)
  /\ now' = now + 1
  /\ UNCHANGED << upstream, arrivals, env, canceled, createdFrom, cachedMeta, aggVars, refreshes, buildkiteCache, readers, writer, tickC, handler, pc,
                  ip, page, allBuilds, builds, pageMap, received, workers, results,
                  closed, pipeOut, ret, response, requested, acquired, outcome,
                  ticksEmitted >>

(* The ticker delivers a tick into its one-slot channel; a tick that finds *)
(* the slot full is dropped and changes nothing.                           *)
Tick ==
  /\ tickC = 0
  /\ tickC' = 1
  /\ ticksEmitted' = ticksEmitted + 1
  /\ UNCHANGED << now, upstream, arrivals, env, canceled, createdFrom, cachedMeta, aggVars, refreshes, buildkiteCache, readers, writer, handler, pc,
                  ip, page, allBuilds, builds, pageMap, received, workers, results,
                  closed, pipeOut, ret, response, requested, acquired, outcome >>

----------------------------------------------------------------------------
(* A request arrives and gin runs its handler in a goroutine of its own.   *)

(* Every handler begins with buildkiteConfig; when it reports not ok the   *)
(* handler answers 503 with the missing variables and returns.  The three  *)
(* actions after this one are the handlers when it reports ok.             *)
NotConfigured(r, h) ==
  /\ pc[r] = "idle"
  /\ r <= arrivals
  /\ h \in Handlers
  /\ ~ buildkiteConfig(env).ok
  /\ handler' = [ handler EXCEPT ![r] = h ]
  /\ response' = [ response EXCEPT ![r] =
                     [ status |-> StatusServiceUnavailable, builds |-> << >>,
                       missing |-> buildkiteConfigMissing(env) ] ]
  /\ pc' = [ pc EXCEPT ![r] = "done" ]
  /\ UNCHANGED << shared, ip, page, allBuilds, builds, fetchVars, pipeOut, ret,
                  requested, acquired, outcome >>

(* kpiBuildkiteCombinedAll, up to its call of getCachedBuilds. *)
StartCached(r) ==
  /\ pc[r] = "idle"
  /\ r <= arrivals
  /\ buildkiteConfig(env).ok
  /\ handler' = [ handler EXCEPT ![r] = "kpiBuildkiteCombinedAll" ]
  /\ createdFrom' = [ createdFrom EXCEPT ![r] = now - FetchWindow ]
  /\ pc' = [ pc EXCEPT ![r] = "getCached" ]
  /\ UNCHANGED << now, upstream, arrivals, env, canceled, cachedMeta, aggVars, refreshes, buildkiteCache,
                  readers, writer, tickC, ticksEmitted, ip, page, allBuilds, builds, fetchVars, pipeOut, ret,
                  response, requested, acquired, outcome >>

(* kpiBuildkiteCombined and kpiBuildkiteCombinedDaily, up to the first     *)
(* rate-limiter receive of fetchBuildsParallel's first pipeline.           *)
StartParallel(r, h) ==
  /\ pc[r] = "idle"
  /\ r <= arrivals
  /\ buildkiteConfig(env).ok
  /\ h \in ParallelHandlers
  /\ handler' = [ handler EXCEPT ![r] = h ]
  /\ pc' = [ pc EXCEPT ![r] = "acquire1" ]
  /\ ip' = [ ip EXCEPT ![r] = 1 ]
  /\ UNCHANGED << shared, page, allBuilds, builds, fetchVars, pipeOut, ret,
                  response, requested, acquired, outcome >>

(* kpiBuildkiteDeploymentTime and kpiBuildkiteDeploymentFailureRate, up to *)
(* fetchBuilds' GET of page 1, which waits for no tick.                    *)
StartSequential(r, h) ==
  /\ pc[r] = "idle"
  /\ r <= arrivals
  /\ buildkiteConfig(env).ok
  /\ h \in SequentialHandlers
  /\ handler' = [ handler EXCEPT ![r] = h ]
  /\ pc' = [ pc EXCEPT ![r] = "seqInflight" ]
  /\ page' = [ page EXCEPT ![r] = 1 ]
  /\ requested' = [ requested EXCEPT ![r] = Bump(@, LegacyPipeline, 1) ]
  /\ UNCHANGED << shared, ip, allBuilds, builds, fetchVars, pipeOut, ret,
                  response, acquired, outcome >>

----------------------------------------------------------------------------
(* fetchBuilds: the sequential fetch of the legacy pipeline. *)

(* The handler's fetch call returned res: it answers and is done. *)
Answer(r, res) ==
  /\ ret' = [ ret EXCEPT ![r] = res ]
  /\ response' = [ response EXCEPT ![r] = Respond(res) ]
  /\ pc' = [ pc EXCEPT ![r] = "done" ]

(* The response to the GET of page[r] arrives: an error ends the fetch     *)
(* with that error, an empty page ends the loop, a short or the last page  *)
(* is appended and ends it, a full page is appended and the next is asked. *)
SeqResponse(r, o) ==
  /\ pc[r] = "seqInflight"
  /\ LET got == HTTPGet(LegacyPipeline, page[r], o)
         acc == allBuilds[r] \o got.builds
     IN IF got.err # "nil"
          THEN /\ Answer(r, [ builds |-> << >>, err |-> got.err ])
               /\ UNCHANGED << allBuilds, page, requested >>
        ELSE IF Len(got.builds) = 0
          THEN /\ Answer(r, [ builds |-> allBuilds[r], err |-> "nil" ])
               /\ UNCHANGED << allBuilds, page, requested >>
        ELSE IF Len(got.builds) < buildkitePerPage \/ page[r] = buildkiteMaxPages
          THEN /\ Answer(r, [ builds |-> acc, err |-> "nil" ])
               /\ allBuilds' = [ allBuilds EXCEPT ![r] = acc ]
               /\ UNCHANGED << page, requested >>
        ELSE /\ allBuilds' = [ allBuilds EXCEPT ![r] = acc ]
             /\ page' = [ page EXCEPT ![r] = @ + 1 ]
             /\ requested' = [ requested EXCEPT ![r] = Bump(@, LegacyPipeline, page[r] + 1) ]
             /\ UNCHANGED << pc, ret, response >>
  /\ outcome' = [ outcome EXCEPT ![r][<< LegacyPipeline, page[r] >>] = HTTPGet(LegacyPipeline, page[r], o).err ]
  /\ UNCHANGED << shared, handler, ip, builds, fetchVars, pipeOut, acquired >>

----------------------------------------------------------------------------
(* getCachedBuilds. *)

(* Line 101: RLock, granted while no writer holds the mutex. *)
RLock(r) ==
  /\ pc[r] = "getCached"
  /\ writer = {}
  /\ readers' = readers \cup {r}
  /\ pc' = [ pc EXCEPT ![r] = "rlocked" ]
  /\ UNCHANGED << now, upstream, arrivals, env, canceled, createdFrom, cachedMeta, aggVars, refreshes, buildkiteCache, writer, tickC, ticksEmitted,
                  handler, ip, page, allBuilds, builds, fetchVars, pipeOut, ret,
                  response, requested, acquired, outcome >>

(* Lines 102-104: the entry is fresh; its builds are read and the read     *)
(* lock is released.                                                       *)
CacheHit(r) ==
  /\ pc[r] = "rlocked"
  /\ CacheFresh(buildkiteCache, now)
  /\ builds' = [ builds EXCEPT ![r] = CachedBuilds(buildkiteCache, createdFrom[r]) ]
  /\ readers' = readers \ {r}
  /\ pc' = [ pc EXCEPT ![r] = "hitLog" ]
  /\ UNCHANGED << now, upstream, arrivals, env, canceled, createdFrom, cachedMeta, aggVars, refreshes, buildkiteCache, writer, tickC, ticksEmitted,
                  handler, ip, page, allBuilds, fetchVars, pipeOut, ret,
                  response, requested, acquired, outcome >>

(* Lines 105-106: the age is logged from buildkiteCache.FetchedAt, read    *)
(* with no lock held, and the builds read under the lock are returned.     *)
(* The handler measured the call (lines 298, 305): a hit does no I/O and   *)
(* is taken to last less than the tenth of a second.                       *)
HitReturn(r) ==
  /\ pc[r] = "hitLog"
  /\ Answer(r, [ builds |-> builds[r], err |-> "nil" ])
  /\ cachedMeta' = [ cachedMeta EXCEPT ![r] = CachedField(TRUE) ]
  /\ UNCHANGED << now, upstream, arrivals, env, canceled, createdFrom, aggVars, refreshes, buildkiteCache,
                  readers, writer, tickC, ticksEmitted, handler, ip, page, allBuilds, builds, fetchVars,
                  pipeOut, requested, acquired, outcome >>

(* Lines 102, 108-111: no entry or an expired one; the read lock is        *)
(* released and fetchBuildsParallel is called, which starts with its first *)
(* pipeline.                                                               *)
CacheMiss(r) ==
  /\ pc[r] = "rlocked"
  /\ ~ CacheFresh(buildkiteCache, now)
  /\ readers' = readers \ {r}
  /\ pc' = [ pc EXCEPT ![r] = "acquire1" ]
  /\ ip' = [ ip EXCEPT ![r] = 1 ]
  /\ refreshes' = [ refreshes EXCEPT !.began = Append(@, r) ]
  /\ UNCHANGED << now, upstream, arrivals, env, canceled, createdFrom, cachedMeta, aggVars, buildkiteCache, writer, tickC, ticksEmitted,
                  handler, page, allBuilds, builds, fetchVars, pipeOut, ret,
                  response, requested, acquired, outcome >>

(* Line 117: Lock, granted while nobody holds the mutex. *)
LockCache(r) ==
  /\ pc[r] = "lockCache"
  /\ readers = {}
  /\ writer = {}
  /\ writer' = {r}
  /\ pc' = [ pc EXCEPT ![r] = "wlocked" ]
  /\ UNCHANGED << now, upstream, arrivals, env, canceled, createdFrom, cachedMeta, aggVars, refreshes, buildkiteCache, readers, tickC, ticksEmitted,
                  handler, ip, page, allBuilds, builds, fetchVars, pipeOut, ret,
                  response, requested, acquired, outcome >>

(* Lines 118-125: the entry is replaced, the mutex released and the        *)
(* fetched builds returned.  The handler measured the call (lines 298,     *)
(* 305): the tick it waited for may have been in the channel already and   *)
(* the GETs may have been answered at once, so the fetch lasted less than  *)
(* the tenth of a second or it did not.                                    *)
UpdateCache(r) ==
  /\ pc[r] = "wlocked"
  /\ \E quick \in BOOLEAN : cachedMeta' = [ cachedMeta EXCEPT ![r] = CachedField(quick) ]
  /\ refreshes' = [ refreshes EXCEPT !.entryOf = r ]
  /\ buildkiteCache' = NewCacheEntry(buildkiteCache, builds[r], now)
  /\ writer' = writer \ {r}
  /\ Answer(r, [ builds |-> builds[r], err |-> "nil" ])
  /\ UNCHANGED << now, upstream, arrivals, env, canceled, createdFrom, aggVars, readers, tickC, ticksEmitted, handler, ip,
                  page, allBuilds, builds, fetchVars, pipeOut, requested,
                  acquired, outcome >>

----------------------------------------------------------------------------
(* fetchBuildsParallel and fetchBuildsFromPipeline. *)

(* fetchBuildsFromPipeline returned out to fetchBuildsParallel's loop      *)
(* (lines 270-276).  After the last pipeline fetchBuildsParallel returns   *)
(* (lines 278-279): to getCachedBuilds, which returns an error as it is    *)
(* (lines 112-114) and goes on to take the write lock otherwise, or to the *)
(* handler that called it directly, which then answers.                    *)
PipelineReturn(r, out) ==
  LET outs == Append(pipeOut[r], out)
      acc == AppendPipeline(allBuilds[r], out)
      res == ParallelResult(acc, outs)
  IN /\ pipeOut' = [ pipeOut EXCEPT ![r] = outs ]
     /\ allBuilds' = [ allBuilds EXCEPT ![r] = acc ]
     /\ IF ip[r] < NumPipelines
          THEN /\ ip' = [ ip EXCEPT ![r] = @ + 1 ]
               /\ pc' = [ pc EXCEPT ![r] = "acquire1" ]
               /\ UNCHANGED << builds, ret, response >>
        ELSE IF handler[r] \in CachedHandlers /\ res.err = "nil"
          THEN /\ builds' = [ builds EXCEPT ![r] = res.builds ]
               /\ pc' = [ pc EXCEPT ![r] = "lockCache" ]
               /\ UNCHANGED << ip, ret, response >>
        ELSE /\ Answer(r, IF res.err = "nil" THEN res
                          ELSE [ builds |-> << >>, err |-> res.err ])
             /\ UNCHANGED << ip, builds >>

(* Line 134: the first-page request receives a tick; lines 135-142: the    *)
(* GET of page 1 is sent.  The receive is a plain receive: the request's   *)
(* context is first looked at by client.Do, which sends nothing and        *)
(* returns the context's error when it is canceled.                        *)
FirstPageAcquire(r) ==
  /\ pc[r] = "acquire1"
  /\ tickC > 0
  /\ tickC' = TakeTick(tickC)
  /\ acquired' = [ acquired EXCEPT ![r] = @ + 1 ]
  /\ requested' = [ requested EXCEPT ![r] = IF canceled[r] THEN @ ELSE Bump(@, ip[r], 1) ]
  /\ pc' = [ pc EXCEPT ![r] = IF canceled[r] THEN "abort1" ELSE "inflight1" ]
  /\ UNCHANGED << now, upstream, arrivals, env, canceled, createdFrom, cachedMeta, aggVars, refreshes, buildkiteCache, readers, writer, ticksEmitted,
                  handler, ip, page, allBuilds, builds, fetchVars, pipeOut, ret,
                  response, outcome >>

(* Lines 142-226: the response to page 1 arrives.  A failure is returned   *)
(* as the pipeline's error; a short page is returned as the whole result;  *)
(* a full page starts one worker per page 2..buildkiteMaxPages and the     *)
(* goroutine that closes the channel, and the collector begins.            *)
FirstPageResponse(r, o) ==
  /\ \/ pc[r] = "inflight1"
     \/ pc[r] = "abort1" /\ o = "transport"
  /\ LET i == ip[r]
         got == HTTPGet(i, 1, o)
     IN IF got.err # "nil"
          THEN /\ PipelineReturn(r, [ builds |-> << >>, err |-> got.err ])
               /\ UNCHANGED fetchVars
        ELSE IF OnlyOnePage(got.builds)
          THEN /\ PipelineReturn(r, [ builds |-> got.builds, err |-> "nil" ])
               /\ UNCHANGED fetchVars
        ELSE /\ workers' = [ workers EXCEPT ![r][i] = [ p \in WorkerPages |-> "wait" ] ]
             /\ results' = [ results EXCEPT ![r][i] = << >> ]
             /\ closed' = [ closed EXCEPT ![r][i] = FALSE ]
             /\ pageMap' = [ pageMap EXCEPT ![r] = 1 :> got.builds ]
             /\ received' = [ received EXCEPT ![r] = << >> ]
             /\ pc' = [ pc EXCEPT ![r] = "collect" ]
             /\ UNCHANGED << ip, allBuilds, builds, pipeOut, ret, response >>
  /\ outcome' = [ outcome EXCEPT ![r][<< ip[r], 1 >>] = HTTPGet(ip[r], 1, o).err ]
  /\ UNCHANGED << shared, handler, page, requested, acquired >>

(* Line 194: the worker of page p receives a tick; lines 196-205: it sends *)
(* its GET, or, the context being canceled, client.Do sends nothing and    *)
(* returns the context's error.                                            *)
WorkerAcquire(r, i, p) ==
  /\ workers[r][i][p] = "wait"
  /\ tickC > 0
  /\ tickC' = TakeTick(tickC)
  /\ acquired' = [ acquired EXCEPT ![r] = @ + 1 ]
  /\ requested' = [ requested EXCEPT ![r] = IF canceled[r] THEN @ ELSE Bump(@, i, p) ]
  /\ workers' = [ workers EXCEPT ![r][i][p] = IF canceled[r] THEN "abort" ELSE "inflight" ]
  /\ UNCHANGED << now, upstream, arrivals, env, canceled, createdFrom, cachedMeta, aggVars, refreshes, buildkiteCache, readers, writer, ticksEmitted,
                  handler, pc, ip, page, allBuilds, builds, pageMap, received, results,
                  closed, pipeOut, ret, response, outcome >>

(* Lines 205-224: the worker's response arrives and it sends its one       *)
(* result on the channel, which holds buildkiteMaxPages-1 results.         *)
WorkerResponse(r, i, p, o) ==
  /\ \/ workers[r][i][p] = "inflight"
     \/ workers[r][i][p] = "abort" /\ o = "transport"
  /\ Len(results[r][i]) < ResultsCapacity
  /\ LET got == HTTPGet(i, p, o)
     IN results' = [ results EXCEPT ![r][i] =
                       Append(@, [ page |-> p, builds |-> got.builds, err |-> got.err ]) ]
  /\ workers' = [ workers EXCEPT ![r][i][p] = "done" ]
  /\ outcome' = [ outcome EXCEPT ![r][<< i, p >>] = HTTPGet(i, p, o).err ]
  /\ UNCHANGED << shared, handler, pc, ip, page, allBuilds, builds, pageMap, received,
                  closed, pipeOut, ret, response, requested, acquired >>

(* Lines 229-232: every worker is done; the channel is closed. *)
CloseResults(r, i) ==
  /\ \A p \in WorkerPages : workers[r][i][p] = "done"
  /\ ~ closed[r][i]
  /\ closed' = [ closed EXCEPT ![r][i] = TRUE ]
  /\ UNCHANGED << shared, handler, pc, ip, page, allBuilds, builds, pageMap, received,
                  workers, results, pipeOut, ret, response, requested, acquired, outcome >>

(* Lines 238-258: the collector receives the next result.  After a "break" *)
(* the collected pages are combined and returned, whatever the workers     *)
(* still have to deliver.                                                  *)
Collect(r) ==
  /\ pc[r] = "collect"
  /\ results[r][ip[r]] # << >>
  /\ LET i == ip[r]
         res == Head(results[r][i])
         verdict == CollectVerdict(res)
     IN /\ results' = [ results EXCEPT ![r][i] = Tail(@) ]
        /\ received' = [ received EXCEPT ![r] = Append(@, res.page) ]
        /\ IF verdict = "break"
             THEN /\ PipelineReturn(r, [ builds |-> Combine(pageMap[r]), err |-> "nil" ])
                  /\ UNCHANGED pageMap
           ELSE /\ pageMap' = [ pageMap EXCEPT ![r] =
                                  IF verdict = "store" THEN StorePage(@, res) ELSE @ ]
                /\ UNCHANGED << pc, ip, allBuilds, builds, pipeOut, ret, response >>
  /\ UNCHANGED << shared, handler, page, workers, closed, requested, acquired, outcome >>

(* Lines 238, 250-258: the channel is closed and drained; the loop ends    *)
(* and the collected pages are combined and returned.                      *)
CollectEnd(r) ==
  /\ pc[r] = "collect"
  /\ results[r][ip[r]] = << >>
  /\ closed[r][ip[r]]
  /\ PipelineReturn(r, [ builds |-> Combine(pageMap[r]), err |-> "nil" ])
  /\ UNCHANGED << shared, handler, page, fetchVars, requested, acquired, outcome >>

----------------------------------------------------------------------------
Next ==
  \/ AdvanceTime
  \/ Tick
  \/ \E r \in Requests, h \in Handlers : NotConfigured(r, h)
  \/ \E r \in Requests : StartCached(r)
  \/ \E r \in Requests, h \in ParallelHandlers : StartParallel(r, h)
  \/ \E r \in Requests, h \in SequentialHandlers : StartSequential(r, h)
  \/ \E r \in Requests, o \in Outcomes : SeqResponse(r, o)
  \/ \E r \in Requests : RLock(r)
  \/ \E r \in Requests : CacheHit(r)
  \/ \E r \in Requests : HitReturn(r)
  \/ \E r \in Requests : CacheMiss(r)
  \/ \E r \in Requests : LockCache(r)
  \/ \E r \in Requests : UpdateCache(r)
  \/ \E r \in Requests : FirstPageAcquire(r)
  \/ \E r \in Requests, o \in Outcomes : FirstPageResponse(r, o)
  \/ \E r \in Requests, i \in 1 .. NumPipelines, p \in WorkerPages : WorkerAcquire(r, i, p)
  \/ \E r \in Requests, i \in 1 .. NumPipelines, p \in WorkerPages, o \in Outcomes :
       WorkerResponse(r, i, p, o)
  \/ \E r \in Requests, i \in 1 .. NumPipelines : CloseResults(r, i)
  \/ \E r \in Requests : Collect(r)
  \/ \E r \in Requests : CollectEnd(r)

Spec == Init /\ [][Next]_vars

----------------------------------------------------------------------------
(* The client goes away: the context of a request that is inside           *)
(* getCachedBuilds or fetchBuildsParallel is canceled.  A GET in flight    *)
(* then ends in a transport error, which is one of its outcomes anyway.    *)
Cancel(r) ==
  /\ handler[r] \in CachedHandlers \cup ParallelHandlers
  /\ pc[r] \notin { "idle", "done" }
  /\ ~ canceled[r]
  /\ canceled' = [ canceled EXCEPT ![r] = TRUE ]
  /\ UNCHANGED << now, upstream, arrivals, env, createdFrom, cachedMeta, aggVars, refreshes, buildkiteCache, readers, writer,
                  tickC, ticksEmitted, handler, pc, ip, page, allBuilds, builds, fetchVars,
                  pipeOut, ret, response, requested, acquired, outcome >>

(* One request to a handler that calls fetchBuildsParallel directly, with  *)
(* the scheduling the page workers rely on: the ticker keeps ticking, a    *)
(* goroutine blocked in a receive from the ticker's channel is served in   *)
(* its turn, every GET is answered, and a goroutine that can run does.     *)
WorkerInit ==
  /\ Init
  /\ arrivals = 1
  /\ env = [ n \in EnvNames |-> "value" ]

WorkerNext ==
  \/ Tick
  \/ \E r \in Requests, h \in ParallelHandlers : StartParallel(r, h)
  \/ \E r \in Requests : FirstPageAcquire(r)
  \/ \E r \in Requests, o \in Outcomes : FirstPageResponse(r, o)
  \/ \E r \in Requests, i \in 1 .. NumPipelines, p \in WorkerPages : WorkerAcquire(r, i, p)
  \/ \E r \in Requests, i \in 1 .. NumPipelines, p \in WorkerPages, o \in Outcomes :
       WorkerResponse(r, i, p, o)
  \/ \E r \in Requests, i \in 1 .. NumPipelines : CloseResults(r, i)
  \/ \E r \in Requests : Collect(r)
  \/ \E r \in Requests : CollectEnd(r)

WorkerFairness ==
  /\ WF_vars(Tick)
  /\ SF_vars(\E r \in Requests, i \in 1 .. NumPipelines, p \in WorkerPages :
               WorkerAcquire(r, i, p))
  /\ WF_vars(\E r \in Requests, i \in 1 .. NumPipelines, p \in WorkerPages, o \in Outcomes :
               WorkerResponse(r, i, p, o))
  /\ WF_vars(\E r \in Requests, i \in 1 .. NumPipelines : CloseResults(r, i))

WorkerSpec == WorkerInit /\ [][WorkerNext]_vars /\ WorkerFairness

CancelNext ==
  \/ Next
  \/ \E r \in Requests : Cancel(r)

CancelSpec == Init /\ [][CancelNext]_vars

----------------------------------------------------------------------------
(* The aggregating part of the handlers: the reductions of a record set    *)
(* into the weekly and daily series.  Time is in minutes.  A BuildkiteBuild *)
(* is kept as its pipeline slug, its state and its started_at and          *)
(* finished_at, Absent standing for a timestamp parseTime rejects.  A      *)
(* float64 result is kept as the exact fraction << numerator,              *)
(* denominator >> in lowest terms.  A week or day key is kept as the       *)
(* number of the week or day, whose order is the order of the formatted    *)
(* keys.                                                                   *)

MaxRecords == 3
MaxElapsed == 2

DailyWindowDays == 30
MinutesPerDay == 1440
DaysPerWeek == 7
Absent == -1

(* time.Now() of the first aggregating request. *)
RequestTime == 100 * MinutesPerDay

(* finished_at of the records tried: absent, 45 days before the first      *)
(* request, one minute inside the 30-day window of the first request, and  *)
(* 10 days before the first request.                                       *)
OldFinish == RequestTime - 45 * MinutesPerDay
EdgeFinish == RequestTime - DailyWindowDays * MinutesPerDay + 1
RecentFinish == RequestTime - 10 * MinutesPerDay
FinishTimes == { Absent, OldFinish, EdgeFinish, RecentFinish }

(* started_at of the records tried for a finished_at f: for a passed       *)
(* record absent, f itself, 10 and 20 minutes before f; for any other      *)
(* record 10 minutes before f.                                             *)
StartTimes(st, f) ==
  IF f = Absent THEN { Absent }
  ELSE IF st = "passed" THEN { Absent, f, f - 10, f - 20 }
  ELSE { f - 10 }

BuildStates == { "passed", "failed", "canceled" }

BuildRecords ==
  { [ slug |-> pipelines[i], state |-> st, startedAt |-> sa, finishedAt |-> f ] :
      << i, st, f, sa >> \in
        { q \in (1 .. NumPipelines) \X BuildStates \X FinishTimes
                  \X UNION { StartTimes("passed", g) : g \in FinishTimes } :
            q[4] \in StartTimes(q[2], q[3]) } }

RecordLists == UNION { [ 1 .. n -> BuildRecords ] : n \in 0 .. MaxRecords }

RECURSIVE GCD(_, _)
GCD(a, b) == IF b = 0 THEN a ELSE GCD(b, a % b)

(* a / b in float64: a number, or for b = 0 the NaN << 0, 0 >> or the       *)
(* infinity << 1, 0 >>.                                                    *)
Ratio(a, b) ==
  IF b = 0 THEN << IF a = 0 THEN 0 ELSE 1, 0 >>
  ELSE LET g == GCD(a, b) IN << a \div g, b \div g >>

RECURSIVE SumSeq(_)
SumSeq(ds) == IF ds = << >> THEN 0 ELSE Head(ds) + SumSeq(Tail(ds))

RECURSIVE SortKeys(_)
SortKeys(S) ==
  IF S = {} THEN << >>
  ELSE LET m == CHOOSE x \in S : \A y \in S : x <= y
       IN << m >> \o SortKeys(S \ { m })

(* Reading a Go map: the zero value for a key that is not there. *)
Lookup(m, k, zero) == IF k \in DOMAIN m THEN m[k] ELSE zero

(* src/buildkite.go lines 120-129. *)
isDeploymentPipeline(build) == build.slug = "core-stack-deployment-pipeline-legacy"

(* Variant: the zero time.Time is handed on as a parsed time. *)
parseTimeLenient(s) == [ t |-> s, ok |-> TRUE ]

(* parseTime, src/unnamed/part_009 lines 299-311. *)
parseTime(s) == [ t |-> s, ok |-> s # Absent ]

(* weekKey, src/unnamed/part_009 lines 434-437; dayKey, part_005 line 657. *)
weekKey(t) == t \div (DaysPerWeek * MinutesPerDay)
dayKey(t) == t \div MinutesPerDay

(* time.Time.After and time.Time.Before. *)
After(t, u) == t > u
Before(t, u) == t < u

NoBuckets ==
  [ durations |-> [ k \in {} |-> << >> ], passed |-> [ k \in {} |-> 0 ],
    failed |-> [ k \in {} |-> 0 ] ]


(* m[k]++ on a Go map. *)
IncrementAt(m, k) == (k :> Lookup(m, k, 0) + 1) @@ m

(* kpiBuildkiteCombinedAll lines 340-352 (and 357-369, Combined 561-575,   *)
(* CombinedDaily 709-723): one build counted into the bucket key.          *)
CountBuild(acc, build, key) ==
  IF build.state = "passed"
    THEN LET startedAt == parseTime(build.startedAt)
             finishedAt == parseTime(build.finishedAt)
         IN [ acc EXCEPT
                !.durations =
                  IF startedAt.ok /\ After(finishedAt.t, startedAt.t)
                    THEN (key :> Append(Lookup(@, key, << >>), finishedAt.t - startedAt.t)) @@ @
                    ELSE @,
                !.passed = IncrementAt(@, key) ]
  ELSE IF build.state = "failed"
    THEN [ acc EXCEPT !.failed = IncrementAt(@, key) ]
  ELSE acc

(* The loop of lines 325-352 (Combined 547-576): the weekly buckets. *)
RECURSIVE WeeklyBuckets(_, _)
WeeklyBuckets(bs, acc) ==
  IF bs = << >> THEN acc
  ELSE LET build == Head(bs)
           finishedAt == parseTime(build.finishedAt)
       IN IF ~ isDeploymentPipeline(build) \/ ~ finishedAt.ok
            THEN WeeklyBuckets(Tail(bs), acc)
            ELSE WeeklyBuckets(Tail(bs), CountBuild(acc, build, weekKey(finishedAt.t)))

(* The loop of lines 325-336 and 354-370: the daily buckets of the builds  *)
(* finished after thirtyDaysAgo.                                           *)
RECURSIVE DailyBuckets(_, _, _)
DailyBuckets(bs, acc, thirtyDaysAgo) ==
  IF bs = << >> THEN acc
  ELSE LET build == Head(bs)
           finishedAt == parseTime(build.finishedAt)
       IN IF ~ isDeploymentPipeline(build) \/ ~ finishedAt.ok
               \/ ~ After(finishedAt.t, thirtyDaysAgo)
            THEN DailyBuckets(Tail(bs), acc, thirtyDaysAgo)
            ELSE DailyBuckets(Tail(bs), CountBuild(acc, build, dayKey(finishedAt.t)),
                              thirtyDaysAgo)

(* kpiBuildkiteCombinedDaily lines 695-724: every build of its fetch. *)
RECURSIVE AllDailyBuckets(_, _)
AllDailyBuckets(bs, acc) ==
  IF bs = << >> THEN acc
  ELSE LET build == Head(bs)
           finishedAt == parseTime(build.finishedAt)
       IN IF ~ isDeploymentPipeline(build) \/ ~ finishedAt.ok
            THEN AllDailyBuckets(Tail(bs), acc)
            ELSE AllDailyBuckets(Tail(bs), CountBuild(acc, build, dayKey(finishedAt.t)))

(* Lines 383-389: the mean of a bucket's durations, 0 for none. *)
Mean(durations) ==
  IF Len(durations) > 0 THEN Ratio(SumSeq(durations), Len(durations)) ELSE Ratio(0, 1)

FailureRateFraction(passed, failed) ==
  IF passed + failed > 0 THEN Ratio(failed, passed + failed) ELSE Ratio(0, 1)

(* Lines 411-420: failed / (passed + failed) * 100, 0 for no builds. *)
FailureRate(passed, failed) ==
  IF passed + failed > 0 THEN Ratio(failed * 100, passed + failed) ELSE Ratio(0, 1)

(* Lines 374-390: the keys that have a duration, sorted, and their means. *)
DurationSeries(acc) ==
  LET keys == SortKeys(DOMAIN acc.durations)
  IN [ keys |-> keys,
       avg_duration_mins |-> [ i \in 1 .. Len(keys) |-> Mean(acc.durations[keys[i]]) ] ]

(* Lines 392-421: the keys that have a passed or failed build, sorted, and *)
(* their rates and counts.                                                 *)
FailureSeries(acc) ==
  LET keys == SortKeys(DOMAIN acc.passed \cup DOMAIN acc.failed)
  IN [ keys |-> keys,
       failure_rate |-> [ i \in 1 .. Len(keys) |->
                            FailureRate(Lookup(acc.passed, keys[i], 0),
                                        Lookup(acc.failed, keys[i], 0)) ],
       passed |-> [ i \in 1 .. Len(keys) |-> Lookup(acc.passed, keys[i], 0) ],
       failed |-> [ i \in 1 .. Len(keys) |-> Lookup(acc.failed, keys[i], 0) ] ]

BothSeries(acc) ==
  [ deployment_time |-> DurationSeries(acc), failure_rate |-> FailureSeries(acc) ]


(* Variant: the week of a passed build is entered in weekDurations before  *)
(* its duration is found valid.                                            *)
RECURSIVE DeploymentTimeBucketsKeyed(_, _)
DeploymentTimeBucketsKeyed(bs, acc) ==
  IF bs = << >> THEN acc
  ELSE LET build == Head(bs)
           startedAt == parseTime(build.startedAt)
           finishedAt == parseTime(build.finishedAt)
           week == weekKey(finishedAt.t)
       IN IF build.state # "passed" \/ ~ isDeploymentPipeline(build) \/ ~ finishedAt.ok
            THEN DeploymentTimeBucketsKeyed(Tail(bs), acc)
          ELSE IF ~ startedAt.ok \/ Before(finishedAt.t, startedAt.t)
            THEN DeploymentTimeBucketsKeyed(
                   Tail(bs),
                   [ acc EXCEPT !.durations = (week :> Lookup(@, week, << >>)) @@ @ ])
          ELSE DeploymentTimeBucketsKeyed(
                 Tail(bs),
                 [ acc EXCEPT !.durations =
                     (week :> Append(Lookup(@, week, << >>), finishedAt.t - startedAt.t)) @@ @ ])

(* kpiBuildkiteDeploymentTime, src/buildkite.go lines 156-176. *)
RECURSIVE DeploymentTimeBuckets(_, _)
DeploymentTimeBuckets(bs, acc) ==
  IF bs = << >> THEN acc
  ELSE LET build == Head(bs)
           startedAt == parseTime(build.startedAt)
           finishedAt == parseTime(build.finishedAt)
       IN IF \/ build.state # "passed"
             \/ ~ isDeploymentPipeline(build)
             \/ ~ startedAt.ok
             \/ ~ finishedAt.ok
             \/ Before(finishedAt.t, startedAt.t)
            THEN DeploymentTimeBuckets(Tail(bs), acc)
            ELSE DeploymentTimeBuckets(
                   Tail(bs),
                   [ acc EXCEPT !.durations =
                       (weekKey(finishedAt.t) :>
                          Append(Lookup(@, weekKey(finishedAt.t), << >>),
                                 finishedAt.t - startedAt.t)) @@ @ ])

(* kpiBuildkiteDeploymentTime, src/buildkite.go lines 181-195: the keys of  *)
(* weekDurations, sorted, and the mean of each, divided with no test of    *)
(* the length.                                                             *)
MeanUnguarded(durations) == Ratio(SumSeq(durations), Len(durations))

DeploymentTimeAverages(acc) ==
  LET keys == SortKeys(DOMAIN acc.durations)
  IN [ keys |-> keys,
       avg_duration_mins |->
         [ i \in 1 .. Len(keys) |-> MeanUnguarded(acc.durations[keys[i]]) ] ]

(* kpiBuildkiteDeploymentFailureRate, src/buildkite.go lines 236-258. *)
RECURSIVE FailureRateBuckets(_, _)
FailureRateBuckets(bs, acc) ==
  IF bs = << >> THEN acc
  ELSE LET build == Head(bs)
           finishedAt == parseTime(build.finishedAt)
       IN IF \/ ~ isDeploymentPipeline(build)
             \/ (build.state # "passed" /\ build.state # "failed")
             \/ ~ finishedAt.ok
            THEN FailureRateBuckets(Tail(bs), acc)
          ELSE IF build.state = "passed"
            THEN FailureRateBuckets(
                   Tail(bs), [ acc EXCEPT !.passed = IncrementAt(@, weekKey(finishedAt.t)) ])
          ELSE FailureRateBuckets(
                 Tail(bs), [ acc EXCEPT !.failed = IncrementAt(@, weekKey(finishedAt.t)) ])

(* What fetchBuilds hands its handler: builds of the one pipeline it asks. *)
FetchedSequentially(bs) == SelectSeq(bs, isDeploymentPipeline)

(* The series each handler answers with, for the builds it was given at    *)
(* time t.                                                                 *)
CombinedAllSeries(bs, t) ==
  [ handler |-> "kpiBuildkiteCombinedAll",
    weekly |-> BothSeries(WeeklyBuckets(bs, NoBuckets)),
    daily |-> BothSeries(DailyBuckets(bs, NoBuckets, t - DailyWindowDays * MinutesPerDay)) ]

CombinedSeries(bs) ==
  [ handler |-> "kpiBuildkiteCombined",
    weekly |-> BothSeries(WeeklyBuckets(bs, NoBuckets)) ]

CombinedDailySeries(bs) ==
  [ handler |-> "kpiBuildkiteCombinedDaily",
    daily |-> BothSeries(AllDailyBuckets(bs, NoBuckets)) ]

DeploymentTimeSeries(bs) ==
  [ handler |-> "kpiBuildkiteDeploymentTime",
    weekly |-> [ deployment_time |->
                   DeploymentTimeAverages(
                     DeploymentTimeBuckets(FetchedSequentially(bs), NoBuckets)) ] ]

DeploymentFailureRateSeries(bs) ==
  [ handler |-> "kpiBuildkiteDeploymentFailureRate",
    weekly |-> [ failure_rate |->
                   FailureSeries(FailureRateBuckets(FetchedSequentially(bs), NoBuckets)) ] ]

(* The aggregating handlers run on one record set: the first request is    *)
(* made at RequestTime to any of the five handlers; after a                *)
(* kpiBuildkiteCombinedAll request, whose record set is then the cache     *)
(* entry fetched at RequestTime, minutes may pass and a second             *)
(* kpiBuildkiteCombinedAll request be served from the same entry.          *)
AggInit ==
  /\ FetchInit
  /\ arrivals = 1
  /\ upstream = [ i \in 1 .. NumPipelines |-> 0 ]
  /\ env = [ n \in EnvNames |-> "value" ]
  /\ aggBuilds \in RecordLists
  /\ aggNow = RequestTime
  /\ aggResp = NoSeries
  /\ aggPrev = NoSeries

AggAnswer(series) ==
  /\ aggPrev' = aggResp
  /\ aggResp' = series
  /\ UNCHANGED << aggBuilds, aggNow, fetchSide >>

AggCombinedAll ==
  /\ aggPrev = NoSeries
  /\ aggResp.handler \in { "", "kpiBuildkiteCombinedAll" }
  /\ aggResp # NoSeries =>
       CacheFresh(<< [ Builds |-> aggBuilds, FetchedAt |-> RequestTime ] >>, aggNow)
  /\ AggAnswer(CombinedAllSeries(aggBuilds, aggNow))

AggCombined ==
  /\ aggResp = NoSeries
  /\ AggAnswer(CombinedSeries(aggBuilds))

AggCombinedDaily ==
  /\ aggResp = NoSeries
  /\ AggAnswer(CombinedDailySeries(aggBuilds))

AggDeploymentTime ==
  /\ aggResp = NoSeries
  /\ AggAnswer(DeploymentTimeSeries(aggBuilds))

AggDeploymentFailureRate ==
  /\ aggResp = NoSeries
  /\ AggAnswer(DeploymentFailureRateSeries(aggBuilds))

AggAdvanceTime ==
  /\ aggResp.handler = "kpiBuildkiteCombinedAll"
  /\ aggPrev = NoSeries
  /\ aggNow < RequestTime + MaxElapsed
  /\ aggNow' = aggNow + 1
  /\ UNCHANGED << aggBuilds, aggResp, aggPrev, fetchSide >>

AggNext ==
  \/ AggCombinedAll
  \/ AggCombined
  \/ AggCombinedDaily
  \/ AggDeploymentTime
  \/ AggDeploymentFailureRate
  \/ AggAdvanceTime

AggSpec == AggInit /\ [][AggNext]_vars

----------------------------------------------------------------------------
(* Vocabulary of the properties. *)

AllPages == 1 .. buildkiteMaxPages
FetchHandlers == CachedHandlers \cup ParallelHandlers

(* Request r's fetchBuildsParallel has been through every pipeline. *)
ParallelReturned(r) == Len(pipeOut[r]) = NumPipelines

(* Every pipeline fetch of request r returned an error. *)
TotalFailure(r) ==
  /\ ParallelReturned(r)
  /\ \A k \in 1 .. NumPipelines : pipeOut[r][k].err # "nil"

(* The builds of the pipeline fetches that returned no error, in call order. *)
RECURSIVE SucceededBuilds(_)
SucceededBuilds(outs) ==
  IF outs = << >> THEN << >>
  ELSE (IF Head(outs).err = "nil" THEN Head(outs).builds ELSE << >>)
         \o SucceededBuilds(Tail(outs))

(* A GET sent on behalf of request r has not been answered yet. *)
InFlight(r) ==
  \/ pc[r] \in { "inflight1", "seqInflight" }
  \/ \E i \in 1 .. NumPipelines, p \in WorkerPages : workers[r][i][p] = "inflight"

(* GETs sent so far by the rate-limited parallel fetches of all requests. *)
ParallelSent ==
  SumOver([ r \in Requests |-> IF handler[r] \in FetchHandlers THEN TotalRequested(r) ELSE 0 ],
          Requests)

Records(bs) == { bs[k] : k \in 1 .. Len(bs) }

----------------------------------------------------------------------------
(* C1: when the refresh made by a getCachedBuilds call has failed for      *)
(* every configured pipeline, no step of that call changes an existing     *)
(* cache entry (records and fetchedAt stay as they were) and the call      *)
(* returns an error.                                                       *)
C1_FailedRefreshKeepsEntry ==
  [][ \A r \in Requests :
        ( /\ handler[r] \in CachedHandlers
          /\ TotalFailure(r)
          /\ buildkiteCache # << >>
          /\ pc'[r] # pc[r] )
        => /\ buildkiteCache' = buildkiteCache
           /\ (pc'[r] = "done" => ret'[r].err # "nil") ]_vars

(* C2: a metrics request whose fetch failed for every configured pipeline  *)
(* is answered 502, never 200 with empty series.                           *)
C2_TotalFailureIsBadGateway ==
  \A r \in Requests :
    (pc[r] = "done" /\ handler[r] \in FetchHandlers /\ TotalFailure(r))
      => response[r].status = StatusBadGateway

(* C3: when no page GET of a pipeline fetch failed, what                   *)
(* fetchBuildsFromPipeline returned is, whatever the order in which the    *)
(* page workers completed, the list the sequential fetch of the same pages *)
(* gives.                                                                  *)
C3_ReassemblyEqualsSequential ==
  \A r \in Requests : \A k \in 1 .. Len(pipeOut[r]) :
    (\A p \in AllPages : outcome[r][<< k, p >>] # "error")
      => /\ pipeOut[r][k].err = "nil"
         /\ pipeOut[r][k].builds = SequentialFetch(k)

(* C4: a getCachedBuilds call that finds an entry younger than the TTL     *)
(* takes that entry's records, sends no GET and takes no tick, and returns *)
(* those records; one that finds no entry, or one as old as the TTL or     *)
(* older, returns nothing at that point and goes on to fetch.              *)
C4_HitIffFresh ==
  [][ \A r \in Requests :
        /\ (pc[r] = "rlocked" /\ pc'[r] # "rlocked")
           => IF buildkiteCache # << >>
                 /\ now - buildkiteCache[1].FetchedAt < buildkiteCacheTTL
                THEN /\ pc'[r] = "hitLog"
                     /\ builds'[r] = buildkiteCache[1].Builds
                     /\ requested'[r] = requested[r]
                     /\ acquired'[r] = acquired[r]
                     /\ tickC' = tickC
                ELSE /\ pc'[r] = "acquire1"
                     /\ ret'[r] = NoReturn
        /\ (pc[r] = "hitLog" /\ pc'[r] # "hitLog")
           => /\ ret'[r] = [ builds |-> builds[r], err |-> "nil" ]
              /\ TotalRequested(r)' = 0
              /\ acquired'[r] = 0 ]_vars

(* C4 witness: a call has just taken the records of a non-empty entry that *)
(* is some minutes old.                                                    *)
C4_Witness ==
  \E r \in Requests :
    /\ pc[r] = "hitLog"
    /\ builds[r] # << >>
    /\ buildkiteCache # << >>
    /\ now > buildkiteCache[1].FetchedAt

(* C5: a getCachedBuilds call holds neither the read nor the write lock    *)
(* while a GET of its fetch is in flight, and once it holds the write lock *)
(* after a fetch it stores and returns the builds that fetch returned.     *)
C5_NoLockWhileInFlight ==
  \A r \in Requests :
    /\ InFlight(r) => r \notin (readers \cup writer)
    /\ (handler[r] \in CachedHandlers /\ pc[r] = "done" /\ ParallelReturned(r))
         => /\ ret[r] = [ builds |-> allBuilds[r], err |-> "nil" ]
            /\ r \notin (readers \cup writer)

(* C6: no request has sent more upstream GETs than it has received ticks,  *)
(* whichever handler serves it.                                            *)
C6_EveryGetTookATick ==
  \A r \in Requests : TotalRequested(r) <= acquired[r]

(* C7: the GETs sent by the parallel fetches of all requests together      *)
(* never outnumber the ticks the ticker has delivered and that have been   *)
(* received.                                                               *)
C7_SentWithinTicks == ParallelSent <= ticksEmitted - tickC

(* C7 witness: two cache-miss requests are fetching at the same time and   *)
(* each has sent a GET.                                                    *)
C7_Witness ==
  \E r1, r2 \in Requests :
    /\ r1 # r2
    /\ \A r \in { r1, r2 } :
         /\ handler[r] \in CachedHandlers
         /\ pc[r] \in { "inflight1", "acquire1", "collect" }
         /\ TotalRequested(r) >= 1

----------------------------------------------------------------------------
(* C8: the entry only ever changes by being replaced, by the holder of the *)
(* write lock, with the pair (all builds of that call's own fetch, time of *)
(* the write); so at all times it is absent or the pair one call wrote,    *)
(* and the last writer's pair stays.                                       *)
C8_ReplacedWholesale ==
  [][ /\ buildkiteCache' # buildkiteCache
         => \E r \in Requests :
              /\ writer = {r}
              /\ pc[r] = "wlocked"
              /\ ParallelReturned(r)
              /\ buildkiteCache' = << [ Builds |-> allBuilds[r], FetchedAt |-> now ] >>
      /\ buildkiteCache' # << >>
         => \E r \in Requests :
              /\ pc'[r] = "done"
              /\ ParallelReturned(r)'
              /\ buildkiteCache'[1].Builds = ret'[r].builds
              /\ ret'[r].builds = SucceededBuilds(pipeOut'[r]) ]_vars

(* C8 witness: two calls both missed and fetched, got different builds,    *)
(* both wrote, and the entry is the second writer's.                       *)
C8_Witness ==
  \E r1, r2 \in Requests :
    /\ r1 # r2
    /\ \A r \in { r1, r2 } :
         handler[r] \in CachedHandlers /\ pc[r] = "done" /\ ParallelReturned(r)
    /\ ret[r1].builds # ret[r2].builds
    /\ buildkiteCache # << >>
    /\ buildkiteCache[1].Builds = ret[r2].builds

(* C9: fetchBuildsParallel goes through every configured pipeline, sends   *)
(* the first GET of each, and what it accumulates and returns is exactly   *)
(* the builds of the pipelines whose fetch returned no error, with no      *)
(* error of its own.                                                       *)
C9_PartialFailureKeepsTheRest ==
  \A r \in Requests :
    handler[r] \in FetchHandlers =>
      /\ allBuilds[r] = SucceededBuilds(pipeOut[r])
      /\ pc[r] \in { "lockCache", "wlocked" }
           => ParallelReturned(r) /\ builds[r] = SucceededBuilds(pipeOut[r])
      /\ (pc[r] = "done" /\ pipeOut[r] # << >>)
           => /\ ParallelReturned(r)
              /\ \A i \in 1 .. NumPipelines : requested[r][<< i, 1 >>] = 1
              /\ ret[r] = [ builds |-> SucceededBuilds(pipeOut[r]), err |-> "nil" ]
              /\ response[r] = [ status |-> StatusOK, builds |-> SucceededBuilds(pipeOut[r]) ]

(* C9 witness: the first pipeline's fetch failed, the second returned      *)
(* builds, and the request was answered with them.                         *)
C9_Witness ==
  \E r \in Requests :
    /\ pc[r] = "done"
    /\ ParallelReturned(r)
    /\ pipeOut[r][1].err # "nil"
    /\ pipeOut[r][NumPipelines].err = "nil"
    /\ pipeOut[r][NumPipelines].builds # << >>
    /\ response[r].builds = pipeOut[r][NumPipelines].builds

(* C10: if the GET of some page p in 1..buildkiteMaxPages of a pipeline    *)
(* fetch failed while another page's succeeded, the fetch returned no      *)
(* error, and its result holds the records of every page that succeeded    *)
(* and none of page p.                                                     *)
C10_PageFailureIsDropped ==
  \A r \in Requests : \A k \in 1 .. Len(pipeOut[r]) : \A p \in AllPages :
    ( /\ outcome[r][<< k, p >>] = "error"
      /\ \E q \in AllPages : outcome[r][<< k, q >>] = "nil" )
    => /\ pipeOut[r][k].err = "nil"
       /\ \A q \in AllPages :
            outcome[r][<< k, q >>] = "nil"
              => Records(PageContent(k, q)) \subseteq Records(pipeOut[r][k].builds)
       /\ Records(PageContent(k, p)) \cap Records(pipeOut[r][k].builds) = {}

----------------------------------------------------------------------------
(* The one pipeline fetch of request r that started page workers is k.     *)
PagedFetch(r, k) ==
  /\ k \in 1 .. Len(pipeOut[r])
  /\ workers[r][k][buildkiteMaxPages] # "none"
  /\ \A j \in 1 .. NumPipelines : j # k => workers[r][j][buildkiteMaxPages] = "none"

(* C11: every page 2..buildkiteMaxPages of a returned pipeline fetch whose *)
(* GET completed with no error and at least one record is in the list the  *)
(* fetch returned, also when an empty page was received before it.         *)
C11_LatePageAccepted ==
  \A r \in Requests : \A k \in 1 .. Len(pipeOut[r]) : \A p \in WorkerPages :
    ( /\ workers[r][k][p] = "done"
      /\ outcome[r][<< k, p >>] = "nil"
      /\ PageContent(k, p) # << >> )
    => Records(PageContent(k, p)) \subseteq Records(pipeOut[r][k].builds)

(* C12: the list a pipeline fetch returned starts with page 1's records,   *)
(* runs in ascending upstream position (so page i's records precede page   *)
(* j's for i < j, each page's in upstream order), and holds each page      *)
(* whole or not at all, whatever the order the results were received in.   *)
C12_PageOrderNotArrivalOrder ==
  \A r \in Requests : \A k \in 1 .. Len(pipeOut[r]) :
    pipeOut[r][k].err = "nil" =>
      LET bs == pipeOut[r][k].builds
          first == PageContent(k, 1)
      IN /\ Len(bs) >= Len(first)
         /\ SubSeq(bs, 1, Len(first)) = first
         /\ \A a, b \in 1 .. Len(bs) :
              a < b => bs[a][1] = k /\ bs[b][1] = k /\ bs[a][2] < bs[b][2]
         /\ \A p \in AllPages :
              \/ Records(PageContent(k, p)) \subseteq Records(bs)
              \/ Records(PageContent(k, p)) \cap Records(bs) = {}

(* C12 witness: a fetch returned the records of two worker pages of which  *)
(* the later page was received first.                                      *)
C12_Witness ==
  \E r \in Requests : \E k \in 1 .. NumPipelines :
    /\ PagedFetch(r, k)
    /\ \E a, b \in 1 .. Len(received[r]) :
         /\ a < b
         /\ received[r][a] > received[r][b]
         /\ \A p \in { received[r][a], received[r][b] } :
              /\ PageContent(k, p) # << >>
              /\ Records(PageContent(k, p)) \subseteq Records(pipeOut[r][k].builds)

----------------------------------------------------------------------------
(* The environment variables that are unset, empty or blanks only. *)
AbsentEnv == { n \in EnvNames : env[n] \in { "", " " } }

(* C20: when the token or the organization is absent (empty or blanks      *)
(* only) every handler that has answered answered 503 naming exactly the   *)
(* absent variables, no request got past the configuration check, no GET   *)
(* was sent, no tick received, and the cache and its mutex were never      *)
(* touched; with both present no handler answers 503.                      *)
C20_NotConfiguredFailsFast ==
  IF AbsentEnv # {}
    THEN /\ buildkiteCache = << >>
         /\ readers = {}
         /\ writer = {}
         /\ \A r \in Requests :
              /\ pc[r] \in { "idle", "done" }
              /\ TotalRequested(r) = 0
              /\ acquired[r] = 0
              /\ pc[r] = "done"
                   => /\ response[r].status = StatusServiceUnavailable
                      /\ Records(response[r].missing) = AbsentEnv
    ELSE \A r \in Requests : response[r].status # StatusServiceUnavailable

(* C20 witness: with a token of blanks only and an organization set, a     *)
(* request to the cached handler and one to a sequential handler were both *)
(* answered 503 while a tick was waiting in the channel.                   *)
C20_Witness ==
  /\ env["BUILDKITE_TOKEN"] = " "
  /\ env["BUILDKITE_ORG"] = "value"
  /\ tickC = 1
  /\ \E r1, r2 \in Requests :
       /\ handler[r1] \in CachedHandlers
       /\ handler[r2] \in SequentialHandlers
       /\ \A r \in { r1, r2 } :
            pc[r] = "done" /\ response[r].status = StatusServiceUnavailable

----------------------------------------------------------------------------
(* Vocabulary of the properties of the series. *)

Idx(bs) == 1 .. Len(bs)
Terminal(b) == b.state \in { "passed", "failed" }
HasFinish(b) == b.finishedAt # Absent
ValidDuration(b) ==
  b.startedAt # Absent /\ b.finishedAt # Absent /\ b.finishedAt > b.startedAt
InWindow(b, t) == b.finishedAt > t - DailyWindowDays * MinutesPerDay
DurationOf(bs) == [ i \in Idx(bs) |-> bs[i].finishedAt - bs[i].startedAt ]
KeyOf(b, gran) == IF gran = "week" THEN weekKey(b.finishedAt) ELSE dayKey(b.finishedAt)

(* time.Now() of the request aggResp answered. *)
AggRespTime == IF aggPrev = NoSeries THEN RequestTime ELSE aggNow

(* The duration series ser is, bucket by bucket, the mean over exactly the *)
(* passed records with a valid duration among the records scope of         *)
(* aggBuilds.                                                              *)
MeansOverExactly(ser, scope, gran) ==
  LET counted(k) ==
        { i \in scope : /\ aggBuilds[i].state = "passed"
                        /\ ValidDuration(aggBuilds[i])
                        /\ KeyOf(aggBuilds[i], gran) = k }
  IN /\ Len(ser.avg_duration_mins) = Len(ser.keys)
     /\ Records(ser.keys) =
          { KeyOf(aggBuilds[i], gran) :
              i \in { j \in scope : aggBuilds[j].state = "passed"
                                    /\ ValidDuration(aggBuilds[j]) } }
     /\ \A i \in 1 .. Len(ser.keys) :
          ser.avg_duration_mins[i] =
            Ratio(SumOver(DurationOf(aggBuilds), counted(ser.keys[i])),
                  Cardinality(counted(ser.keys[i])))

(* The failure series fr has exactly the buckets of the records scope of   *)
(* aggBuilds, each with the number of its passed and of its failed ones.   *)
CountsOverExactly(fr, scope, gran) ==
  /\ Records(fr.keys) = { KeyOf(aggBuilds[i], gran) : i \in scope }
  /\ \A i \in 1 .. Len(fr.keys) :
       /\ fr.passed[i] = Cardinality({ j \in scope : /\ aggBuilds[j].state = "passed"
                                                     /\ KeyOf(aggBuilds[j], gran) = fr.keys[i] })
       /\ fr.failed[i] = Cardinality({ j \in scope : /\ aggBuilds[j].state = "failed"
                                                     /\ KeyOf(aggBuilds[j], gran) = fr.keys[i] })

(* Index sets of aggBuilds. *)
Finished == { i \in Idx(aggBuilds) : HasFinish(aggBuilds[i]) }
TerminalFinished == { i \in Finished : Terminal(aggBuilds[i]) }
Tracked == { i \in Idx(aggBuilds) : isDeploymentPipeline(aggBuilds[i]) }
Recent(t) == { i \in Finished : InWindow(aggBuilds[i], t) }

(* C13: every weekly avg_duration_mins of kpiBuildkiteCombinedAll is the   *)
(* mean of finishedAt - startedAt over exactly the passed, valid-duration  *)
(* records of the whole record set (all pipelines) finished in that week.  *)
C13_WeeklyMeanOverAllPipelines ==
  aggResp.handler = "kpiBuildkiteCombinedAll" =>
    MeansOverExactly(aggResp.weekly.deployment_time, Finished, "week")

(* C14: the keys kpiBuildkiteCombinedAll emits, weekly and daily, in the   *)
(* duration series and in the failure-rate series, are exactly the week    *)
(* (day) keys of the passed and failed records with a parseable finishedAt *)
(* (within the trailing 30 days for the daily output).                     *)
C14_BucketKeysComplete ==
  aggResp.handler = "kpiBuildkiteCombinedAll" =>
    LET weeks == { weekKey(aggBuilds[i].finishedAt) : i \in TerminalFinished }
        days == { dayKey(aggBuilds[i].finishedAt) :
                    i \in TerminalFinished \cap Recent(AggRespTime) }
    IN /\ Records(aggResp.weekly.failure_rate.keys) = weeks
       /\ Records(aggResp.weekly.deployment_time.keys) = weeks
       /\ Records(aggResp.daily.failure_rate.keys) = days
       /\ Records(aggResp.daily.deployment_time.keys) = days

(* The two series of one granularity have the same keys at the same        *)
(* indices, and a bucket with no duration has the value 0.                 *)
Aligned(both) ==
  /\ both.deployment_time.keys = both.failure_rate.keys
  /\ Len(both.deployment_time.avg_duration_mins) = Len(both.failure_rate.failure_rate)
  /\ \A i \in 1 .. Len(both.failure_rate.keys) :
       both.failure_rate.passed[i] = 0 => both.deployment_time.avg_duration_mins[i] = << 0, 1 >>

(* C15: the duration series and the failure-rate series of                 *)
(* kpiBuildkiteCombinedAll and kpiBuildkiteCombined are aligned over one   *)
(* sorted list of keys, a bucket without durations having the value 0.     *)
C15_SeriesAligned ==
  /\ aggResp.handler \in { "kpiBuildkiteCombinedAll", "kpiBuildkiteCombined" }
       => Aligned(aggResp.weekly)
  /\ aggResp.handler = "kpiBuildkiteCombinedAll" => Aligned(aggResp.daily)

(* The failure-rate series of a response. *)
FailureSeriesOf(resp) ==
  (IF resp.handler \in { "kpiBuildkiteCombinedAll", "kpiBuildkiteCombined",
                         "kpiBuildkiteDeploymentFailureRate" }
     THEN { resp.weekly.failure_rate } ELSE {})
  \cup (IF resp.handler \in { "kpiBuildkiteCombinedAll", "kpiBuildkiteCombinedDaily" }
          THEN { resp.daily.failure_rate } ELSE {})

(* C16: in every emitted weekly and daily bucket the failure rate n/d is   *)
(* between 0 and 100, equals failed / (passed + failed) * 100, and is 0    *)
(* when failed is 0.                                                       *)
C16_FailureRateBounds ==
  \A fr \in FailureSeriesOf(aggResp) :
    /\ Len(fr.failure_rate) = Len(fr.keys)
    /\ \A i \in 1 .. Len(fr.keys) :
         LET n == fr.failure_rate[i][1]
             d == fr.failure_rate[i][2]
         IN /\ d > 0
            /\ 0 <= n
            /\ n <= 100 * d
            /\ fr.passed[i] + fr.failed[i] > 0
            /\ n * (fr.passed[i] + fr.failed[i]) = fr.failed[i] * 100 * d
            /\ fr.failed[i] = 0 => n = 0

(* C16 witness: kpiBuildkiteCombinedAll emitted a daily bucket of two      *)
(* passed builds and one failed build, rate 100/3.                         *)
C16_Witness ==
  /\ aggResp.handler = "kpiBuildkiteCombinedAll"
  /\ \E i \in 1 .. Len(aggResp.daily.failure_rate.keys) :
       /\ aggResp.daily.failure_rate.passed[i] = 2
       /\ aggResp.daily.failure_rate.failed[i] = 1
       /\ aggResp.daily.failure_rate.failure_rate[i] = << 100, 3 >>

(* C17: in every handler, among the records of the tracked pipeline, a     *)
(* passed record contributes a duration only when startedAt and finishedAt *)
(* are present and finishedAt is strictly later, and every passed record   *)
(* with a parseable finishedAt is in its bucket's passed count.            *)
C17_DurationNeedsStrictlyLaterFinish ==
  LET h == aggResp.handler
      weekly == Tracked \cap Finished
      daily == IF h = "kpiBuildkiteCombinedAll"
                 THEN Tracked \cap Recent(AggRespTime) ELSE Tracked \cap Finished
  IN /\ h \in { "kpiBuildkiteCombinedAll", "kpiBuildkiteCombined",
                "kpiBuildkiteDeploymentTime" }
          => MeansOverExactly(aggResp.weekly.deployment_time, weekly, "week")
     /\ h \in { "kpiBuildkiteCombinedAll", "kpiBuildkiteCombinedDaily" }
          => MeansOverExactly(aggResp.daily.deployment_time, daily, "day")
     /\ h \in { "kpiBuildkiteCombinedAll", "kpiBuildkiteCombined",
                "kpiBuildkiteDeploymentFailureRate" }
          => CountsOverExactly(aggResp.weekly.failure_rate, weekly \cap TerminalFinished, "week")
     /\ h \in { "kpiBuildkiteCombinedAll", "kpiBuildkiteCombinedDaily" }
          => CountsOverExactly(aggResp.daily.failure_rate, daily \cap TerminalFinished, "day")

(* C18: kpiBuildkiteCombinedAll counts every passed or failed record with  *)
(* a parseable finishedAt in the weekly series, and in the daily series    *)
(* exactly those of them finished within the 30 days before the request.   *)
C18_DailyIsTrailingWindow ==
  aggResp.handler = "kpiBuildkiteCombinedAll" =>
    /\ CountsOverExactly(aggResp.weekly.failure_rate, TerminalFinished, "week")
    /\ CountsOverExactly(aggResp.daily.failure_rate,
                         TerminalFinished \cap Recent(AggRespTime), "day")

(* C19: two kpiBuildkiteCombinedAll requests served from the same cache    *)
(* entry within its TTL are answered with identical weekly and daily       *)
(* series, whatever the time between them.                                 *)
C19_SameEntrySameSeries ==
  aggPrev.handler = "kpiBuildkiteCombinedAll" => aggResp = aggPrev

(* C21: once a request's context is canceled, a page worker of it that was *)
(* waiting for the rate limiter stops waiting because of the cancellation: *)
(* it leaves the wait without taking a tick out of the ticker's channel.   *)
C21_CanceledWorkerTakesNoTick ==
  [][ \A r \in Requests, i \in 1 .. NumPipelines, p \in WorkerPages :
        ( /\ canceled[r]
          /\ workers[r][i][p] = "wait"
          /\ workers'[r][i][p] # "wait" ) => tickC' = tickC ]_vars

(* C22: there is one cache entry at most; a getCachedBuilds call that      *)
(* finds it within the TTL takes its records whatever createdFrom bound    *)
(* the call was made with and leaves it as it is, and a call that writes   *)
(* replaces it by its own fetch for every later caller.                    *)
C22_OneEntryForAllCallers ==
  /\ [](Len(buildkiteCache) <= 1)
  /\ [][ \A r \in Requests :
           /\ (pc[r] = "rlocked" /\ pc'[r] = "hitLog")
                => /\ builds'[r] = buildkiteCache[1].Builds
                   /\ buildkiteCache' = buildkiteCache
           /\ (pc[r] = "hitLog" /\ pc'[r] = "done")
                => /\ ret'[r] = [ builds |-> builds[r], err |-> "nil" ]
                   /\ buildkiteCache' = buildkiteCache
           /\ (pc[r] = "wlocked" /\ pc'[r] = "done")
                => buildkiteCache' = << [ Builds |-> builds[r], FetchedAt |-> now ] >> ]_vars

(* C22 witness: one call fetched and wrote the entry; a later call, made   *)
(* with another createdFrom bound, sent no GET and returned the same       *)
(* non-empty records, which are the entry's.                               *)
C22_Witness ==
  \E r1, r2 \in Requests :
    /\ r1 # r2
    /\ \A r \in { r1, r2 } : handler[r] \in CachedHandlers /\ pc[r] = "done"
    /\ ParallelReturned(r1)
    /\ TotalRequested(r2) = 0
    /\ createdFrom[r1] # createdFrom[r2]
    /\ ret[r1].builds # << >>
    /\ ret[r2].builds = ret[r1].builds
    /\ buildkiteCache = << [ Builds |-> ret[r1].builds, FetchedAt |-> createdFrom[r1] + FetchWindow ] >>

(* C23: a pipeline fetch whose page 1 came back short sends no further     *)
(* GET and returns page 1's records; one whose page 1 came back full       *)
(* starts a worker for each page 2..buildkiteMaxPages; no page number is   *)
(* asked twice by one pipeline fetch, none above buildkiteMaxPages is      *)
(* asked, and one refresh sends at most buildkiteMaxPages GETs per         *)
(* pipeline.                                                               *)
C23_RequestCount ==
  \A r \in Requests :
    handler[r] \in FetchHandlers =>
      /\ DOMAIN requested[r] = (1 .. NumPipelines) \X AllPages
      /\ \A k \in DOMAIN requested[r] : requested[r][k] <= 1
      /\ TotalRequested(r) <= NumPipelines * buildkiteMaxPages
      /\ \A i \in 1 .. NumPipelines :
           outcome[r][<< i, 1 >>] = "nil" =>
             IF PageLen(upstream[i], 1) < buildkitePerPage
               THEN /\ \A p \in WorkerPages :
                         requested[r][<< i, p >>] = 0 /\ workers[r][i][p] = "none"
                    /\ i <= Len(pipeOut[r])
                    /\ pipeOut[r][i] = [ builds |-> PageContent(i, 1), err |-> "nil" ]
               ELSE \A p \in WorkerPages : workers[r][i][p] # "none"

(* C23 witness: a request is answered whose one pipeline had a full page 1 *)
(* and asked every page once, and whose other pipeline had a short page 1  *)
(* and asked that page only.                                               *)
C23_Witness ==
  \E r \in Requests : \E i, j \in 1 .. NumPipelines :
    /\ handler[r] \in FetchHandlers
    /\ pc[r] = "done"
    /\ \A p \in AllPages : requested[r][<< i, p >>] = 1
    /\ outcome[r][<< j, 1 >>] = "nil"
    /\ PageLen(upstream[j], 1) = 1
    /\ TotalRequested(r) = buildkiteMaxPages + 1

(* The duration series and the failure-rate series of a response. *)
DurationSeriesOf(resp) ==
  (IF resp.handler \in { "kpiBuildkiteCombinedAll", "kpiBuildkiteCombined",
                         "kpiBuildkiteDeploymentTime" }
     THEN { resp.weekly.deployment_time } ELSE {})
  \cup (IF resp.handler \in { "kpiBuildkiteCombinedAll", "kpiBuildkiteCombinedDaily" }
          THEN { resp.daily.deployment_time } ELSE {})

(* C24: every average and every failure rate a handler emits is a number,  *)
(* the quotient by a count that is not zero (never the NaN or infinity of  *)
(* a division by zero); every emitted failure-rate bucket has a passed or  *)
(* failed build, and one with no failed build has the rate 0.              *)
C24_NoDivisionByZero ==
  /\ \A ser \in DurationSeriesOf(aggResp) :
       \A i \in 1 .. Len(ser.keys) :
         ser.avg_duration_mins[i][2] > 0 /\ ser.avg_duration_mins[i][1] >= 0
  /\ \A fr \in FailureSeriesOf(aggResp) :
       \A i \in 1 .. Len(fr.keys) :
         /\ fr.failure_rate[i][2] > 0
         /\ fr.passed[i] + fr.failed[i] > 0
         /\ fr.failed[i] = 0 => fr.failure_rate[i] = << 0, 1 >>

(* C24 witness: kpiBuildkiteDeploymentTime was given a passed build with   *)
(* no started_at, which it averages nowhere, next to two passed builds of  *)
(* 10 and 20 minutes of one week, and answered that week with the mean 15. *)
C24_Witness ==
  /\ aggResp.handler = "kpiBuildkiteDeploymentTime"
  /\ aggResp.weekly.deployment_time.avg_duration_mins = << << 15, 1 >> >>
  /\ \E i \in Tracked \cap Finished :
       /\ aggBuilds[i].state = "passed"
       /\ aggBuilds[i].startedAt = Absent
       /\ weekKey(aggBuilds[i].finishedAt) \notin Records(aggResp.weekly.deployment_time.keys)

(* The records of aggBuilds that have a parseable finished_at. *)
WithoutUnfinished == SelectSeq(aggBuilds, HasFinish)

(* C25: records whose finished_at is absent or unparseable change nothing: *)
(* every handler answers with the series it computes from the record set   *)
(* without them, and no bucket exists for the zero time.                   *)
C25_UnfinishedRecordsIgnored ==
  /\ aggResp.handler = "kpiBuildkiteCombinedAll"
       => aggResp = CombinedAllSeries(WithoutUnfinished, AggRespTime)
  /\ aggResp.handler = "kpiBuildkiteCombined"
       => aggResp = CombinedSeries(WithoutUnfinished)
  /\ aggResp.handler = "kpiBuildkiteCombinedDaily"
       => aggResp = CombinedDailySeries(WithoutUnfinished)
  /\ aggResp.handler = "kpiBuildkiteDeploymentTime"
       => aggResp = DeploymentTimeSeries(WithoutUnfinished)
  /\ aggResp.handler = "kpiBuildkiteDeploymentFailureRate"
       => aggResp = DeploymentFailureRateSeries(WithoutUnfinished)
  /\ \A ser \in DurationSeriesOf(aggResp) \cup FailureSeriesOf(aggResp) :
       /\ weekKey(Absent) \notin Records(ser.keys)
       /\ \A i \in 1 .. Len(ser.keys) :
            \E j \in Tracked \cap Finished :
              ser.keys[i] \in { weekKey(aggBuilds[j].finishedAt), dayKey(aggBuilds[j].finishedAt) }

(* C25 witness: kpiBuildkiteCombinedAll was given a passed and a failed    *)
(* build of the tracked pipeline without finished_at and one finished      *)
(* passed build, and answered with the one weekly and the one daily bucket *)
(* of the finished build.                                                  *)
C25_Witness ==
  /\ aggResp.handler = "kpiBuildkiteCombinedAll"
  /\ \E i, j \in Tracked \ Finished :
       aggBuilds[i].state = "passed" /\ aggBuilds[j].state = "failed"
  /\ aggResp.weekly.failure_rate.passed = << 1 >>
  /\ aggResp.weekly.failure_rate.failed = << 0 >>
  /\ aggResp.daily.failure_rate.passed = << 1 >>

(* C26: a kpiBuildkiteCombinedAll answer says cached = true exactly when   *)
(* its records were taken from the cache entry with no fetch, and cached = *)
(* false exactly when a fetch was made for the request.                    *)
C26_CachedFlagExact ==
  \A r \in Requests :
    (handler[r] \in CachedHandlers /\ response[r].status = StatusOK)
      => /\ cachedMeta[r] \in { "true", "false" }
         /\ cachedMeta[r] = "true" <=> pipeOut[r] = << >>

(* C27: every step of getCachedBuilds that reads the shared entry (the     *)
(* freshness test and the builds of lines 102-103, the FetchedAt of the    *)
(* log line 105) is taken by a request that holds the read or the write    *)
(* lock.                                                                   *)
C27_ReadsUnderLock ==
  [][ \A r \in Requests :
        ( \/ pc[r] = "rlocked" /\ pc'[r] # "rlocked"
          \/ pc[r] = "hitLog" /\ pc'[r] # "hitLog" )
        => r \in readers \cup writer ]_vars

(* The page workers of pipeline fetch i of request r that have sent their  *)
(* result, and those that have not yet.                                    *)
WorkersDone(r, i) == { p \in WorkerPages : workers[r][i][p] = "done" }
WorkersPending(r, i) == { p \in WorkerPages : workers[r][i][p] \in { "wait", "inflight", "abort" } }

(* The page numbers of the results sent on the channel of pipeline fetch i *)
(* of request r: those still in the channel and those the collector took.  *)
PagesSent(r, i) ==
  [ k \in 1 .. Len(results[r][i]) |-> results[r][i][k].page ]
    \o (IF workers[r][i][buildkiteMaxPages] # "none" THEN received[r] ELSE << >>)

(* C28: each page worker sends one result and no more, whatever its GET    *)
(* ended in; there is room in the channel for the result of every worker   *)
(* that has not sent yet, also after the collector stopped reading; the    *)
(* channel is closed only when every worker has sent, and stays closed;    *)
(* and with the ticker ticking and every GET answered, every started       *)
(* worker comes to have sent its result and the channel to be closed.      *)
C28_WorkerProtocol ==
  /\ [] \A r \in Requests, i \in 1 .. NumPipelines :
          /\ Len(PagesSent(r, i)) = Cardinality(WorkersDone(r, i))
          /\ Records(PagesSent(r, i)) = WorkersDone(r, i)
          /\ Len(results[r][i]) + Cardinality(WorkersPending(r, i)) <= Cardinality(WorkerPages)
          /\ closed[r][i] => WorkersDone(r, i) = WorkerPages
  /\ [][ \A r \in Requests, i \in 1 .. NumPipelines :
           /\ closed[r][i] => closed'[r][i]
           /\ \A p \in WorkerPages : workers[r][i][p] = "done" => workers'[r][i][p] = "done" ]_vars
  /\ []<>(\A r \in Requests, i \in 1 .. NumPipelines :
             /\ WorkersPending(r, i) = {}
             /\ WorkersDone(r, i) # {} => closed[r][i])

(* C28 witness: the collector stopped at an empty page and the fetch       *)
(* returned; the other workers have sent their results since, which lie    *)
(* unread in the channel, and the channel is closed.                       *)
C28_Witness ==
  \E r \in Requests, i \in 1 .. NumPipelines :
    /\ PagedFetch(r, i)
    /\ closed[r][i]
    /\ Len(results[r][i]) = Cardinality(WorkerPages) - 1
    /\ Len(received[r]) = 1

(* Request a began its refresh (left line 108 for fetchBuildsParallel)     *)
(* before request b began its own.                                         *)
BeganBefore(a, b) ==
  \E j, k \in 1 .. Len(refreshes.began) :
    j < k /\ refreshes.began[j] = a /\ refreshes.began[k] = b

(* C29: the entry is never replaced by the records of a fetch that began   *)
(* before the fetch whose records the entry holds.                         *)
C29_EntryNeverGoesBack ==
  [][ \A r \in Requests :
        (pc[r] = "wlocked" /\ pc'[r] = "done" /\ refreshes.entryOf # 0)
          => ~ BeganBefore(r, refreshes.entryOf) ]_vars

(* C30: in the weekly failure-rate series of kpiBuildkiteCombinedAll the   *)
(* passed and failed counts add up to the number of passed or failed       *)
(* records with a parseable finished_at in the merged record set, whatever *)
(* configured pipeline they were fetched from, and each count is the       *)
(* number of such records of its week.                                     *)
C30_EveryTerminalRecordCountedOnce ==
  aggResp.handler = "kpiBuildkiteCombinedAll" =>
    LET fr == aggResp.weekly.failure_rate
    IN /\ SumSeq(fr.passed) + SumSeq(fr.failed) = Cardinality(TerminalFinished)
       /\ \A i \in 1 .. Len(fr.keys) :
            fr.passed[i] + fr.failed[i] =
              Cardinality({ j \in TerminalFinished :
                              weekKey(aggBuilds[j].finishedAt) = fr.keys[i] })

====
